---- MODULE Spec2Model ----
(***************************************************************************)
(* GoGrey: conversion of one raster image to greyscale (src/main.go).      *)
(*                                                                         *)
(* The module models toGreyscale (the per-pixel luminosity transform),     *)
(* encodeImage (the encoder dispatch) and main (the pipeline with its      *)
(* terminal error handling and its output path derivation).                *)
(***************************************************************************)
EXTENDS Integers, Sequences, FiniteSets, TLC

(***************************************************************************)
(* float64 arithmetic.                                                     *)
(*                                                                         *)
(* Every float64 value the luminosity expression produces is 0 or lies in  *)
(* [0.114, 256), so it is an integer multiple of 2^-56.  A value v is held *)
(* as the natural number v * 2^56, in three limbs of 22 bits, least        *)
(* significant first, so that every intermediate value stays below 2^31.   *)
(***************************************************************************)
Base == 2^22

FixNorm(a0, a1, a2) ==
    LET c0 == a0 \div Base
        s1 == a1 + c0
        c1 == s1 \div Base
    IN  <<a0 % Base, s1 % Base, a2 + c1>>

FixAdd(a, b) == FixNorm(a[1] + b[1], a[2] + b[2], a[3] + b[3])

\* The exact product of a fixed-point value and an integer n in 0..255.
FixMulSmall(a, n) == FixNorm(a[1] * n, a[2] * n, a[3] * n)

RECURSIVE BitLen(_)
BitLen(n) == IF n = 0 THEN 0 ELSE 1 + BitLen(n \div 2)

\* IEEE 754 round-to-nearest-even of an exact value to the 53 significant
\* bits of a float64: the rounding every float64 operation ends with.
RoundToFloat64(v) ==
    LET len == IF v[3] = 0 THEN 0 ELSE 44 + BitLen(v[3])
        k == len - 53
    IN  IF k <= 0 THEN v
        ELSE LET r == v[1] % (2^k)
                 half == 2^(k - 1)
                 lsb == (v[1] \div (2^k)) % 2
                 up == (r > half) \/ (r = half /\ lsb = 1)
             IN  FixNorm(v[1] - r + (IF up THEN 2^k ELSE 0), v[2], v[3])

\* The float64 nearest to each coefficient of main.go:52, times 2^56.
\* 0.299 is 5386305154335113 * 2^-54, 0.587 is 5287225962532962 * 2^-53 and
\* 0.114 is 8214565720323785 * 2^-56.
CoefRed == <<67108, 2952790, 1224>>
CoefGreen == <<33552, 1476395, 2404>>
CoefBlue == <<4093641, 3959422, 466>>

\* float64(n) * coefficient, one rounded multiplication.
F64Mul(coef, n) == RoundToFloat64(FixMulSmall(coef, n))

\* a + b, one rounded addition.
F64Add(a, b) == RoundToFloat64(FixAdd(a, b))

\* coef * float64(n) + acc with a single rounding: the fused multiply-add
\* the Go compiler may emit on targets that have one.
F64FMA(coef, n, acc) == RoundToFloat64(FixAdd(FixMulSmall(coef, n), acc))

\* The builds of main.go:52.  The language lets an implementation fuse
\* x*y + z; "separate" rounds every operation (amd64), the two fused builds
\* differ in which product of the inner sum is fused.
Builds == {"separate", "fusedGreen", "fusedRed"}

Luminosity(build, red, green, blue) ==
    CASE build = "separate" ->
           F64Add(F64Add(F64Mul(CoefRed, red), F64Mul(CoefGreen, green)),
                  F64Mul(CoefBlue, blue))
      [] build = "fusedGreen" ->
           F64FMA(CoefBlue, blue, F64FMA(CoefGreen, green, F64Mul(CoefRed, red)))
      [] build = "fusedRed" ->
           F64FMA(CoefBlue, blue, F64FMA(CoefRed, red, F64Mul(CoefGreen, green)))

\* math.Round: the nearest integer, halves away from zero (the argument is
\* never negative here).  The integer part is v div 2^56, the half bit is
\* bit 55.
MathRound(v) == (v[3] \div (2^12)) + ((v[3] \div (2^11)) % 2)

\* The conversion to uint8 of an integral value.
Uint8(n) == n % 256

\* main.go:51-53
Grey(build, red, green, blue) == Uint8(MathRound(Luminosity(build, red, green, blue)))


(***************************************************************************)
(* Colours and images of the standard image packages, as main.go uses them.*)
(***************************************************************************)
RGBA(r, g, b, a) == [model |-> "RGBA", R |-> r, G |-> g, B |-> b, A |-> a]
NRGBA(r, g, b, a) == [model |-> "NRGBA", R |-> r, G |-> g, B |-> b, A |-> a]
\* A color.Gray holds one channel, Y: it is kept in R, the rest is unused.
Gray(v) == [model |-> "Gray", R |-> v, G |-> 0, B |-> 0, A |-> 0]

\* color.Color.RGBA(): the alpha-premultiplied 16-bit channels of a colour.
\* NRGBA multiplies each channel by alpha; Gray is opaque.
RGBA16(c) ==
    CASE c.model = "RGBA" ->
           [r |-> c.R * 257, g |-> c.G * 257, b |-> c.B * 257, a |-> c.A * 257]
      [] c.model = "NRGBA" ->
           [r |-> (c.R * 257 * c.A) \div 255, g |-> (c.G * 257 * c.A) \div 255,
            b |-> (c.B * 257 * c.A) \div 255, a |-> c.A * 257]
      [] c.model = "Gray" ->
           [r |-> c.R * 257, g |-> c.R * 257, b |-> c.R * 257, a |-> 65535]

\* color.RGBAModel.Convert (main.go:38): a color.RGBA is returned as it is,
\* any other colour through its 16-bit channels shifted down to 8 bits.
RGBAModelConvert(c) ==
    IF c.model = "RGBA" THEN c
    ELSE LET p == RGBA16(c)
         IN  RGBA(p.r \div 256, p.g \div 256, p.b \div 256, p.a \div 256)

\* color.NRGBAModel.Convert, which the PNG serializer applies to every pixel
\* of a non-opaque image.RGBA: (r * 0xffff) / a on the 16-bit channels is
\* (R * 0xffff) / A on the 8-bit ones, the common factor 0x101 dropped.
NRGBAModelConvert(c) ==
    IF c.model = "NRGBA" THEN c
    ELSE LET p == RGBA16(c)
         IN  IF p.a = 65535 THEN NRGBA(p.r \div 256, p.g \div 256, p.b \div 256, 255)
             ELSE IF p.a = 0 THEN NRGBA(0, 0, 0, 0)
             ELSE NRGBA(Uint8((((p.r \div 257) * 65535) \div (p.a \div 257)) \div 256),
                        Uint8((((p.g \div 257) * 65535) \div (p.a \div 257)) \div 256),
                        Uint8((((p.b \div 257) * 65535) \div (p.a \div 257)) \div 256),
                        p.a \div 256)

\* An image: its kind (the concrete image type), the corner min of its
\* bounds, its width w and height h, and its pixels by column and row
\* within the bounds.  For a Paletted image pix holds the palette entry each
\* pixel's index selects.
Positions(w, h) == (0 .. w - 1) \X (0 .. h - 1)

InBounds(m, px, py) ==
    /\ m.min[1] <= px /\ px < m.min[1] + m.w
    /\ m.min[2] <= py /\ py < m.min[2] + m.h

\* image.Image.At: the colour at (px, py) of the image's coordinate space.
\* Outside the bounds RGBA, NRGBA and Gray images return the zero colour and
\* a Paletted image returns its first palette entry.
At(m, px, py) ==
    IF InBounds(m, px, py)
    THEN m.pix[<<px - m.min[1], py - m.min[2]>>]
    ELSE CASE m.kind = "RGBA" -> RGBA(0, 0, 0, 0)
           [] m.kind = "NRGBA" -> NRGBA(0, 0, 0, 0)
           [] m.kind = "Gray" -> Gray(0)
           [] m.kind = "Paletted" -> m.palette[1]

\* image.NewRGBA(image.Rect(0, 0, w, h)): every pixel the zero colour.
NewRGBA(w, h) ==
    [kind |-> "RGBA", min |-> <<0, 0>>, w |-> w, h |-> h, palette |-> <<>>,
     pix |-> [p \in Positions(w, h) |-> RGBA(0, 0, 0, 0)]]

\* (*image.RGBA).Set: nothing outside the bounds, the converted colour inside.
ImageSet(m, px, py, c) ==
    IF InBounds(m, px, py)
    THEN [m EXCEPT !.pix[<<px - m.min[1], py - m.min[2]>>] = RGBAModelConvert(c)]
    ELSE m

(***************************************************************************)
(* The state.                                                              *)
(***************************************************************************)
VARIABLES
    pc,             \* the statement about to run
    caller,         \* who called the function that is running
    build,          \* how main.go:52 was compiled
    originalImage,  \* toGreyscale: its argument
    size,           \* toGreyscale: originalImage.Bounds().Size()
    modifiedImg,    \* toGreyscale: the destination image
    x, y,           \* toGreyscale: the loop counters
    atLog,          \* the coordinates toGreyscale passed to At, in order
    setLog,         \* the coordinates toGreyscale passed to Set, in order
    encArgs,        \* encodeImage: its arguments img and format
    sink,           \* the writes made to the output file
    serializerCalls,\* the serializers invoked, with their options
    encErr,         \* encodeImage: the error it returned
    args,           \* os.Args[1:]
    inputFilename, formatStr, originalFormat, img, greyImg, outputFilename,
    files,          \* the paths main created
    steps,          \* the steps of main that completed, in order
    stdout,         \* the messages main printed to standard output
    stderr,         \* the fatal message main logged
    exitStatus      \* the exit status: -1 while main runs

tgVars == <<originalImage, size, modifiedImg, x, y, atLog, setLog>>
encVars == <<encArgs, sink, serializerCalls, encErr>>
mainVars == <<args, inputFilename, formatStr, originalFormat, img, greyImg,
              outputFilename, files, steps, stdout, stderr, exitStatus>>
vars == <<pc, caller, build, tgVars, encVars, mainVars>>

\* A nil image, a nil error, no arguments.
NoImage == [kind |-> "nil", min |-> <<0, 0>>, w |-> 0, h |-> 0, palette |-> <<>>, pix |-> <<>>]
NoError == [kind |-> "nil", tag |-> ""]
NoArgs == [img |-> NoImage, format |-> ""]

(***************************************************************************)
(* toGreyscale (main.go:27-67).                                            *)
(***************************************************************************)
\* A slip: the far corner of the bounds taken for their size.
DestSizeFromMax(m) == <<m.min[1] + m.w, m.min[2] + m.h>>

\* main.go:28-29: the size of the source and the destination rectangle.
DestSize(m) == <<m.w, m.h>>

\* A slip: the blue channel left as it was.
GreyPixelKeepsBlue(b, pixel) ==
    LET originalColor == RGBAModelConvert(pixel)
        grey == Grey(b, originalColor.R, originalColor.G, originalColor.B)
    IN  RGBA(grey, grey, originalColor.B, originalColor.A)

\* main.go:36-60: the colour written for the source colour read.
GreyPixel(b, pixel) ==
    LET originalColor == RGBAModelConvert(pixel)
        grey == Grey(b, originalColor.R, originalColor.G, originalColor.B)
    IN  RGBA(grey, grey, grey, originalColor.A)

\* main.go:27: toGreyscale was called.
Entered == pc = "tg_alloc"

\* main.go:34-35: both loop conditions hold, the body runs.
InnerLoopRuns == pc = "tg_loop" /\ x < size[1] /\ y < size[2]

\* main.go:35: the inner loop condition fails, the outer loop goes on.
InnerLoopOver == pc = "tg_loop" /\ x < size[1] /\ y >= size[2]

\* main.go:34: the outer loop condition fails.
OuterLoopOver == pc = "tg_loop" /\ x >= size[1]

\* main.go:28-34: allocate the destination, enter the loops.
ToGreyAlloc ==
    /\ Entered
    /\ size' = DestSize(originalImage)
    /\ modifiedImg' = NewRGBA(DestSize(originalImage)[1], DestSize(originalImage)[2])
    /\ x' = 0
    /\ y' = 0
    /\ pc' = "tg_loop"
    /\ UNCHANGED <<caller, build, originalImage, atLog, setLog, encVars, mainVars>>

\* main.go:35-62: one iteration of the inner loop.
ToGreyPixel ==
    /\ InnerLoopRuns
    /\ modifiedImg' = ImageSet(modifiedImg, x, y, GreyPixel(build, At(originalImage, x, y)))
    /\ atLog' = Append(atLog, <<x, y>>)
    /\ setLog' = Append(setLog, <<x, y>>)
    /\ y' = y + 1
    /\ UNCHANGED <<pc, caller, build, originalImage, size, x, encVars, mainVars>>

\* main.go:34-35: the inner loop is over, the outer loop goes on.
ToGreyNextColumn ==
    /\ InnerLoopOver
    /\ x' = x + 1
    /\ y' = 0
    /\ UNCHANGED <<pc, caller, build, originalImage, size, modifiedImg, atLog, setLog,
                   encVars, mainVars>>

\* main.go:66: return modifiedImg, to main (main.go:117-118) or to the caller
\* of the function alone.
ToGreyReturn ==
    /\ OuterLoopOver
    /\ greyImg' = modifiedImg
    /\ IF caller = "main"
       THEN /\ pc' = "create"
            /\ steps' = Append(steps, "transform")
            /\ stdout' = Append(stdout, "Conversion complete.")
       ELSE /\ pc' = "returned"
            /\ UNCHANGED <<steps, stdout>>
    /\ UNCHANGED <<caller, build, tgVars, encVars, args, inputFilename, formatStr,
                   originalFormat, img, outputFilename, files, stderr, exitStatus>>

(***************************************************************************)
(* encodeImage (main.go:70-81).                                            *)
(***************************************************************************)
FormatJPEG == "jpeg"
FormatPNG == "png"
FormatGIF == "gif"
FormatUnknown == "unknown"

JpegQuality == 90

\* A serializer call: which package's Encode, and the options passed to it.
NoSerializer == [name |-> "none", options |-> FALSE, quality |-> 0]

\* A slip: the default case falls back to PNG.
SerializerForDefaultPng(format) ==
    CASE format = FormatJPEG -> [name |-> "jpeg", options |-> TRUE, quality |-> JpegQuality]
      [] format = FormatGIF -> [name |-> "gif", options |-> FALSE, quality |-> 0]
      [] OTHER -> [name |-> "png", options |-> FALSE, quality |-> 0]

\* main.go:71-80: the serializer the switch on the format tag selects.
SerializerFor(format) ==
    CASE format = FormatJPEG -> [name |-> "jpeg", options |-> TRUE, quality |-> JpegQuality]
      [] format = FormatPNG -> [name |-> "png", options |-> FALSE, quality |-> 0]
      [] format = FormatGIF -> [name |-> "gif", options |-> FALSE, quality |-> 0]
      [] OTHER -> NoSerializer

\* What a serializer that ran to its end wrote.  PNG is lossless: it stores
\* every pixel of an image.RGBA as its non-premultiplied colour.  JPEG and
\* GIF are lossy: only the dimensions are kept here.
Written(call, m) ==
    [serializer |-> call.name, complete |-> TRUE, w |-> m.w, h |-> m.h,
     pix |-> IF call.name = "png"
             THEN [p \in Positions(m.w, m.h) |-> NRGBAModelConvert(m.pix[p])]
             ELSE <<>>]

\* What a serializer that failed part way left.
PartlyWritten(call) ==
    [serializer |-> call.name, complete |-> FALSE, w |-> 0, h |-> 0, pix |-> <<>>]

\* main.go:70-81.  A serializer may fail (the write to the file fails).
EncodeImage ==
    /\ pc = "enc_dispatch"
    /\ LET call == SerializerFor(encArgs.format)
       IN  IF call = NoSerializer
           THEN /\ encErr' = [kind |-> "unsupported", tag |-> encArgs.format]
                /\ UNCHANGED <<sink, serializerCalls>>
           ELSE /\ serializerCalls' = Append(serializerCalls, call)
                /\ \E ok \in BOOLEAN :
                     IF ok
                     THEN /\ sink' = Append(sink, Written(call, encArgs.img))
                          /\ encErr' = NoError
                     ELSE /\ sink' = Append(sink, PartlyWritten(call))
                          /\ encErr' = [kind |-> "serializer", tag |-> encArgs.format]
    /\ pc' = IF caller = "main" THEN "enc_return" ELSE "returned"
    /\ UNCHANGED <<caller, build, tgVars, encArgs, mainVars>>

(***************************************************************************)
(* main (main.go:83-138).                                                  *)
(***************************************************************************)
\* filepath.Ext (main.go:121): the suffix beginning at the final dot in the
\* final element of the path; the scan from the end stops at a separator.
RECURSIVE ExtScan(_, _)
ExtScan(path, i) ==
    IF i < 1 \/ path[i] = "/" THEN <<>>
    ELSE IF path[i] = "." THEN SubSeq(path, i, Len(path))
    ELSE ExtScan(path, i - 1)

\* A slip: the scan does not stop at a path separator.
RECURSIVE ExtScanAnyDot(_, _)
ExtScanAnyDot(path, i) ==
    IF i < 1 THEN <<>>
    ELSE IF path[i] = "." THEN SubSeq(path, i, Len(path))
    ELSE ExtScanAnyDot(path, i - 1)

ExtOfLastDot(path) == ExtScanAnyDot(path, Len(path))

Ext(path) == ExtScan(path, Len(path))

HasSuffix(str, suffix) ==
    /\ Len(suffix) <= Len(str)
    /\ SubSeq(str, Len(str) - Len(suffix) + 1, Len(str)) = suffix

\* strings.TrimSuffix (main.go:122)
TrimSuffix(str, suffix) ==
    IF HasSuffix(str, suffix) THEN SubSeq(str, 1, Len(str) - Len(suffix)) ELSE str

GreyscaleSuffix == <<"_", "g", "r", "e", "y", "s", "c", "a", "l", "e">>

\* main.go:121-123
OutputFilename(path) ==
    LET extension == Ext(path)
        baseName == TrimSuffix(path, extension)
    IN  baseName \o GreyscaleSuffix \o extension

\* A slip: the default case of the switch is missing.
SupportedAny(str) == TRUE

\* The format strings the switch of main.go:105-114 accepts.
Supported(str) == str \in {"jpeg", "png", "gif"}

\* A slip: the error is reported and the run goes on.
OnErrorGoOn(failed, next) == next

\* if err != nil { log.Fatalf(...) }: where main goes on.
OnError(failed, next) == IF failed THEN "exited" ELSE next

\* log.Fatalf: the message on standard error and exit status 1.
Fatal(failed, what) ==
    /\ stderr' = IF failed THEN what ELSE stderr
    /\ exitStatus' = IF failed THEN 1 ELSE exitStatus

\* main.go:84-90
Start ==
    /\ pc = "start"
    /\ IF Len(args) < 1
       THEN /\ stdout' = stdout \o <<"usage", "example">>
            /\ exitStatus' = 1
            /\ pc' = "exited"
            /\ UNCHANGED inputFilename
       ELSE /\ inputFilename' = args[1]
            /\ pc' = "open"
            /\ UNCHANGED <<stdout, exitStatus>>
    /\ UNCHANGED <<caller, build, tgVars, encVars, args, formatStr, originalFormat, img,
                   greyImg, outputFilename, files, steps, stderr>>

\* main.go:92-96.  The empty path cannot be opened.
Open ==
    /\ pc = "open"
    /\ \E ok \in BOOLEAN :
         /\ ok => inputFilename # <<>>
         /\ pc' = OnError(~ok, "decode")
         /\ Fatal(~ok, "Error opening input file")
         /\ steps' = IF ok THEN Append(steps, "open") ELSE steps
    /\ UNCHANGED <<caller, build, tgVars, encVars, args, inputFilename, formatStr,
                   originalFormat, img, greyImg, outputFilename, files, stdout>>

\* What image.Decode returns for a stream it accepts: a PNG with alpha
\* decodes to an NRGBA image, a greyscale JPEG to a Gray image, a GIF to a
\* Paletted image with the bounds of its first frame.  "bmp" stands for the
\* format string of any decoder beyond the three main.go imports.
\* PngWithAlpha is the 2x1 PNG with pixels (200,100,50,255) and (10,20,30,0).
PngWithAlpha ==
    [kind |-> "NRGBA", min |-> <<0, 0>>, w |-> 2, h |-> 1, palette |-> <<>>,
     pix |-> (<<0, 0>> :> NRGBA(200, 100, 50, 255)) @@ (<<1, 0>> :> NRGBA(10, 20, 30, 0))]

Decoded ==
    { [format |-> "png", img |-> PngWithAlpha],
      [format |-> "jpeg",
       img |-> [kind |-> "Gray", min |-> <<0, 0>>, w |-> 1, h |-> 1, palette |-> <<>>,
                pix |-> (<<0, 0>> :> Gray(200))]],
      [format |-> "gif",
       img |-> [kind |-> "Paletted", min |-> <<1, 0>>, w |-> 1, h |-> 1,
                palette |-> <<RGBA(0, 0, 0, 0), RGBA(255, 0, 0, 255)>>,
                pix |-> (<<0, 0>> :> RGBA(255, 0, 0, 255))]],
      [format |-> "bmp",
       img |-> [kind |-> "RGBA", min |-> <<0, 0>>, w |-> 1, h |-> 1, palette |-> <<>>,
                pix |-> (<<0, 0>> :> RGBA(0, 36, 12, 255))]] }

\* A path that names a directory whatever the file system holds: it ends in
\* a separator, or its final element is "." or "..".  Reading it fails.
NamesDirectory(path) ==
    LET n == Len(path)
    IN  /\ n >= 1
        /\ \/ path[n] = "/"
           \/ /\ path[n] = "."
              /\ \/ n = 1
                 \/ path[n - 1] = "/"
                 \/ path[n - 1] = "." /\ (n = 2 \/ path[n - 2] = "/")

\* main.go:99-102.  Decoding fails on a directory and may fail on any file.
Decode ==
    /\ pc = "decode"
    /\ \/ /\ pc' = OnError(TRUE, "map")
          /\ Fatal(TRUE, "Error decoding image")
          /\ UNCHANGED <<img, formatStr, steps>>
       \/ \E d \in Decoded :
            /\ ~NamesDirectory(inputFilename)
            /\ img' = d.img
            /\ formatStr' = d.format
            /\ pc' = OnError(FALSE, "map")
            /\ Fatal(FALSE, "Error decoding image")
            /\ steps' = Append(steps, "decode")
    /\ UNCHANGED <<caller, build, tgVars, encVars, args, inputFilename, originalFormat,
                   greyImg, outputFilename, files, stdout>>

\* main.go:104-114: the format string becomes the tag, or the run ends.
MapFormat ==
    /\ pc = "map"
    /\ originalFormat' = IF Supported(formatStr) THEN formatStr ELSE originalFormat
    /\ pc' = OnError(~Supported(formatStr), "transform")
    /\ Fatal(~Supported(formatStr), "Unsupported input image format")
    /\ steps' = IF Supported(formatStr) THEN Append(steps, "map") ELSE steps
    /\ UNCHANGED <<caller, build, tgVars, encVars, args, inputFilename, formatStr, img,
                   greyImg, outputFilename, files, stdout>>

\* main.go:116-117: the progress message and the call of toGreyscale.
CallToGreyscale ==
    /\ pc = "transform"
    /\ stdout' = Append(stdout, "Converting")
    /\ originalImage' = img
    /\ caller' = "main"
    /\ pc' = "tg_alloc"
    /\ UNCHANGED <<build, size, modifiedImg, x, y, atLog, setLog, encVars, args,
                   inputFilename, formatStr, originalFormat, img, greyImg, outputFilename,
                   files, steps, stderr, exitStatus>>

\* main.go:120-129
Create ==
    /\ pc = "create"
    /\ outputFilename' = OutputFilename(inputFilename)
    /\ \E ok \in BOOLEAN :
         /\ pc' = OnError(~ok, "encode")
         /\ Fatal(~ok, "Error creating output file")
         /\ files' = IF ok THEN files \cup {OutputFilename(inputFilename)} ELSE files
         /\ steps' = IF ok THEN Append(steps, "create") ELSE steps
    /\ UNCHANGED <<caller, build, tgVars, encVars, args, inputFilename, formatStr,
                   originalFormat, img, greyImg, stdout>>

\* main.go:132: the call of encodeImage.
CallEncodeImage ==
    /\ pc = "encode"
    /\ encArgs' = [img |-> greyImg, format |-> originalFormat]
    /\ caller' = "main"
    /\ pc' = "enc_dispatch"
    /\ UNCHANGED <<build, tgVars, sink, serializerCalls, encErr, mainVars>>

\* main.go:133-138
Finish ==
    /\ pc = "enc_return"
    /\ pc' = "exited"
    /\ IF OnError(encErr # NoError, "saved") = "saved"
       THEN /\ steps' = Append(steps, "encode")
            /\ stdout' = Append(stdout, "Greyscale image saved as")
            /\ exitStatus' = 0
            /\ UNCHANGED stderr
       ELSE /\ Fatal(TRUE, "Error encoding greyscale image")
            /\ UNCHANGED <<steps, stdout>>
    /\ UNCHANGED <<caller, build, tgVars, encVars, args, inputFilename, formatStr,
                   originalFormat, img, greyImg, outputFilename, files>>

(***************************************************************************)
(* toGreyscale on its own, for every source image within the bounds.       *)
(***************************************************************************)
MaxW == 2
MaxH == 2

\* Corners of the source's bounds: at the origin and away from it (a GIF
\* frame placed at an offset, a sub-image).
Mins == {<<0, 0>>, <<1, 0>>}

GifPalette == <<RGBA(0, 0, 0, 0), RGBA(255, 0, 0, 255)>>

\* The pixel values a source of each kind is drawn from.
SamplePixels(kind) ==
    CASE kind = "RGBA" -> {RGBA(0, 36, 12, 255), RGBA(100, 50, 25, 128)}
      [] kind = "NRGBA" -> {NRGBA(200, 100, 50, 128), NRGBA(10, 20, 30, 0)}
      [] kind = "Gray" -> {Gray(0), Gray(200)}
      [] kind = "Paletted" -> {GifPalette[1], GifPalette[2]}

Kinds == {"RGBA", "NRGBA", "Gray", "Paletted"}

SourceImages ==
    UNION {UNION {UNION {UNION {
        {[kind |-> k, min |-> mn, w |-> w, h |-> h,
          palette |-> IF k = "Paletted" THEN GifPalette ELSE <<>>,
          pix |-> f] : f \in [Positions(w, h) -> SamplePixels(k)]}
        : h \in 0 .. MaxH} : w \in 0 .. MaxW} : mn \in Mins} : k \in Kinds}

IdleMain ==
    /\ args = <<>>
    /\ inputFilename = <<>>
    /\ formatStr = ""
    /\ originalFormat = ""
    /\ img = NoImage
    /\ greyImg = NoImage
    /\ outputFilename = <<>>
    /\ files = {}
    /\ steps = <<>>
    /\ stdout = <<>>
    /\ stderr = ""
    /\ exitStatus = -1

IdleToGrey ==
    /\ originalImage = NoImage
    /\ size = <<0, 0>>
    /\ modifiedImg = NoImage
    /\ x = 0
    /\ y = 0
    /\ atLog = <<>>
    /\ setLog = <<>>

IdleEncode ==
    /\ encArgs = NoArgs
    /\ sink = <<>>
    /\ serializerCalls = <<>>
    /\ encErr = NoError

InitTransform ==
    /\ pc = "tg_alloc"
    /\ caller = "none"
    /\ build \in Builds
    /\ originalImage \in SourceImages
    /\ size = <<0, 0>>
    /\ modifiedImg = NoImage
    /\ x = 0
    /\ y = 0
    /\ atLog = <<>>
    /\ setLog = <<>>
    /\ IdleEncode
    /\ IdleMain

NextTransform == ToGreyAlloc \/ ToGreyPixel \/ ToGreyNextColumn \/ ToGreyReturn

SpecTransform == InitTransform /\ [][NextTransform]_vars

(***************************************************************************)
(* encodeImage on its own, for every format tag.                           *)
(***************************************************************************)
Tags == {FormatJPEG, FormatPNG, FormatGIF, FormatUnknown, "bmp", ""}

InitEncode ==
    /\ pc = "enc_dispatch"
    /\ caller = "none"
    /\ build = "separate"
    /\ IdleToGrey
    /\ encArgs \in [img : {m \in SourceImages : m.kind = "RGBA" /\ m.min = <<0, 0>>},
                    format : Tags]
    /\ sink = <<>>
    /\ serializerCalls = <<>>
    /\ encErr = NoError
    /\ IdleMain

NextEncode == EncodeImage

SpecEncode == InitEncode /\ [][NextEncode]_vars

(***************************************************************************)
(* The program: main run on every argument list within the bounds.         *)
(***************************************************************************)
MaxPathLen == 3

PathChars == {"a", ".", "/"}

Paths == UNION {[1 .. n -> PathChars] : n \in 0 .. MaxPathLen}

Init ==
    /\ pc = "start"
    /\ caller = "none"
    /\ build \in Builds
    /\ IdleToGrey
    /\ IdleEncode
    /\ args \in {<<>>} \cup {<<p>> : p \in Paths}
    /\ inputFilename = <<>>
    /\ formatStr = ""
    /\ originalFormat = ""
    /\ img = NoImage
    /\ greyImg = NoImage
    /\ outputFilename = <<>>
    /\ files = {}
    /\ steps = <<>>
    /\ stdout = <<>>
    /\ stderr = ""
    /\ exitStatus = -1

Next ==
    \/ Start
    \/ Open
    \/ Decode
    \/ MapFormat
    \/ CallToGreyscale
    \/ ToGreyAlloc
    \/ ToGreyPixel
    \/ ToGreyNextColumn
    \/ ToGreyReturn
    \/ Create
    \/ CallEncodeImage
    \/ EncodeImage
    \/ Finish

Spec == Init /\ [][Next]_vars

(***************************************************************************)
(* The claims.                                                             *)
(***************************************************************************)
Range(f) == {f[i] : i \in DOMAIN f}

SetMax(S) == CHOOSE m \in S : \A n \in S : n <= m

\* The normalized colour toGreyscale read for its k-th pixel.
ColourRead(k) == RGBAModelConvert(At(originalImage, atLog[k][1], atLog[k][2]))

\* round(0.299 R + 0.587 G + 0.114 B), halves up, in integers.
RoundedLuminosity(c) == (299 * c.R + 587 * c.G + 114 * c.B + 500) \div 1000

\* C1: every pixel toGreyscale writes holds grey = floor((299 R + 587 G +
\* 114 B + 500) / 1000) of the normalized colour (R, G, B, A) it read, and
\* that value lies in 0..255.
C1_GreyIsRoundedLuminosity ==
    \A k \in 1 .. Len(setLog) :
        /\ modifiedImg.pix[setLog[k]].R = RoundedLuminosity(ColourRead(k))
        /\ RoundedLuminosity(ColourRead(k)) \in 0 .. 255

\* C2: in the image toGreyscale returns, the Red, Green and Blue channels of
\* every pixel are equal.
C2_GreyInvariant ==
    pc = "returned" =>
        \A p \in DOMAIN greyImg.pix :
            greyImg.pix[p].R = greyImg.pix[p].G /\ greyImg.pix[p].G = greyImg.pix[p].B

\* C2's case: a returned image with a pixel made from a colour whose three
\* channels differ.
C2_Witness ==
    /\ pc = "returned"
    /\ \E k \in 1 .. Len(setLog) :
          /\ ColourRead(k).R # ColourRead(k).G
          /\ ColourRead(k).G # ColourRead(k).B
          /\ greyImg.pix[setLog[k]].R > 0

\* C3: the Alpha of every pixel (i, j) of the returned image is exactly the
\* Alpha of the source pixel at column i, row j, normalized to 8-bit RGBA.
C3_AlphaPreserved ==
    pc = "returned" =>
        \A p \in Positions(originalImage.w, originalImage.h) :
            /\ p \in DOMAIN greyImg.pix
            /\ greyImg.pix[p].A = RGBAModelConvert(originalImage.pix[p]).A

\* The loops of toGreyscale count upwards within the size, one pixel written
\* per iteration; the image returned has the width and the height of the
\* source; a zero-area source gives a zero-area image with no pixel written.
DimensionsPreserved ==
    /\ pc = "tg_loop" =>
          /\ x \in 0 .. size[1]
          /\ y \in 0 .. size[2]
          /\ Len(setLog) = x * size[2] + y
    /\ pc = "returned" =>
          /\ greyImg.w = originalImage.w
          /\ greyImg.h = originalImage.h
          /\ greyImg.min = <<0, 0>>
          /\ DOMAIN greyImg.pix = Positions(originalImage.w, originalImage.h)
          /\ Len(setLog) = originalImage.w * originalImage.h
          /\ (originalImage.w = 0 \/ originalImage.h = 0) =>
                setLog = <<>> /\ greyImg.pix = <<>>

\* Until toGreyscale has returned, one of its statements can run.
NeverStuck ==
    pc \in {"tg_alloc", "tg_loop"} =>
        (Entered \/ InnerLoopRuns \/ InnerLoopOver \/ OuterLoopOver)

\* The number of steps toGreyscale still has to take.
StepsLeft ==
    CASE pc = "tg_alloc" -> originalImage.w * (originalImage.h + 1) + 2
      [] pc = "tg_loop" -> (size[1] - x) * (size[2] + 1) - y + 1
      [] OTHER -> 0

\* C4: toGreyscale is total and preserves the dimensions.  For every source
\* of width W >= 0 and height H >= 0 it is never stuck and every step brings
\* it nearer to its return (it terminates, in W * (H + 1) + 2 steps); the
\* image it returns has width W and height H; a zero-area source gives a
\* zero-area image with no pixel written.
C4_TotalAndDimensionPreserving ==
    /\ [](DimensionsPreserved /\ NeverStuck /\ StepsLeft >= 0)
    /\ [][StepsLeft' < StepsLeft]_vars

\* C4's case: a source with columns and no rows, at an offset, returned.
C4_Witness ==
    /\ pc = "returned"
    /\ originalImage.w > 0
    /\ originalImage.h = 0
    /\ originalImage.min # <<0, 0>>
    /\ greyImg.w = originalImage.w
    /\ setLog = <<>>

\* The 2x1 PNG the end-to-end scenario expects.
ScenarioOutput ==
    [serializer |-> "png", complete |-> TRUE, w |-> 2, h |-> 1,
     pix |-> (<<0, 0>> :> NRGBA(124, 124, 124, 255)) @@ (<<1, 0>> :> NRGBA(18, 18, 18, 0))]

\* C5: for the 2x1 PNG with pixels (200,100,50,255) and (10,20,30,0), a
\* successful run writes a 2x1 PNG with pixels (124,124,124,255) and
\* (18,18,18,0).
C5_EndToEndScenario ==
    (pc = "exited" /\ exitStatus = 0 /\ img = PngWithAlpha) => sink = <<ScenarioOutput>>

\* C6: encodeImage dispatches on the format tag only.  JPEG invokes the JPEG
\* serializer with quality 90, PNG the PNG serializer, GIF the GIF serializer
\* without options; any other tag invokes no serializer, writes nothing and
\* returns an unsupported-format error carrying the tag.
C6_EncodeDispatch ==
    pc = "returned" =>
        /\ encArgs.format = "jpeg" =>
              serializerCalls = <<[name |-> "jpeg", options |-> TRUE, quality |-> 90]>>
        /\ encArgs.format = "png" =>
              serializerCalls = <<[name |-> "png", options |-> FALSE, quality |-> 0]>>
        /\ encArgs.format = "gif" =>
              serializerCalls = <<[name |-> "gif", options |-> FALSE, quality |-> 0]>>
        /\ encArgs.format \in {"jpeg", "png", "gif"} =>
              /\ Len(sink) = 1
              /\ sink[1].serializer = encArgs.format
              /\ encErr.kind # "unsupported"
        /\ encArgs.format \notin {"jpeg", "png", "gif"} =>
              /\ serializerCalls = <<>>
              /\ sink = <<>>
              /\ encErr = [kind |-> "unsupported", tag |-> encArgs.format]

\* C6's case: encodeImage returned for the tag Unknown and a non-empty image.
C6_Witness ==
    /\ pc = "returned"
    /\ encArgs.format = FormatUnknown
    /\ encArgs.img.w > 0 /\ encArgs.img.h > 0
    /\ encErr = [kind |-> "unsupported", tag |-> FormatUnknown]

\* C7: the tag main passes to encodeImage is the format detected on decode,
\* one of JPEG, PNG, GIF, so encodeImage never returns the unsupported-format
\* error; a decode result with any other format string ends the run before
\* the transform and before the output file is created.
C7_TagDetectedIsTagEncoded ==
    /\ encArgs # NoArgs =>
          /\ encArgs.format = formatStr
          /\ encArgs.format \in {FormatJPEG, FormatPNG, FormatGIF}
    /\ encErr.kind # "unsupported"
    /\ (formatStr # "" /\ formatStr \notin {"jpeg", "png", "gif"}) =>
          /\ pc \in {"map", "exited"}
          /\ pc = "exited" => exitStatus = 1
          /\ originalImage = NoImage
          /\ modifiedImg = NoImage
          /\ atLog = <<>>
          /\ files = {}
          /\ outputFilename = <<>>
          /\ encArgs = NoArgs

\* C7's case: a run that decoded a GIF and came back from encodeImage.
C7_Witness ==
    /\ pc = "enc_return"
    /\ formatStr = "gif"
    /\ encArgs.format = FormatGIF
    /\ serializerCalls # <<>>

Pipeline == <<"open", "decode", "map", "transform", "create", "encode">>

IsPrefix(s, t) == Len(s) <= Len(t) /\ SubSeq(t, 1, Len(s)) = s

\* C8: every failure is terminal.  The steps complete in the order open,
\* decode, map, transform, create, encode; a failure (or a missing argument)
\* ends the run at once with status 1 and nothing runs after it; no effect
\* of a step is there unless the steps before it completed (the output file
\* only after open, decode, map and transform); the message 'saved' and
\* status 0 come only with all six steps completed.
C8_FailuresAreTerminal ==
    /\ IsPrefix(steps, Pipeline)
    /\ exitStatus \in {-1, 0, 1}
    /\ (exitStatus # -1) <=> (pc = "exited")
    /\ stderr # "" => (pc = "exited" /\ exitStatus = 1)
    /\ pc = "exited" => ~ENABLED Next
    /\ inputFilename # <<>> => Len(args) >= 1
    /\ img # NoImage => Len(steps) >= 2
    /\ originalImage # NoImage => Len(steps) >= 3
    /\ greyImg # NoImage => Len(steps) >= 4
    /\ outputFilename # <<>> => Len(steps) >= 4
    /\ files # {} => Len(steps) >= 5
    /\ (encArgs # NoArgs \/ serializerCalls # <<>> \/ sink # <<>>) => Len(steps) >= 5
    /\ exitStatus = 0 <=> steps = Pipeline
    /\ exitStatus = 0 <=> "Greyscale image saved as" \in Range(stdout)
    /\ exitStatus = 1 => (stderr # "" \/ args = <<>>)

\* C8's case: the creation of the output file failed after the transform.
C8_Witness ==
    /\ pc = "exited"
    /\ exitStatus = 1
    /\ stderr = "Error creating output file"
    /\ steps = <<"open", "decode", "map", "transform">>
    /\ files = {}
    /\ serializerCalls = <<>>

\* The path P with its trailing E removed, "_greyscale", then E.
Derived(P, E) == SubSeq(P, 1, Len(P) - Len(E)) \o GreyscaleSuffix \o E

\* The substring of P from its last '.' to the end, empty without a '.'.
FromLastDot(P) ==
    LET dots == {i \in 1 .. Len(P) : P[i] = "."}
    IN  IF dots = {} THEN <<>> ELSE SubSeq(P, SetMax(dots), Len(P))

\* The substring of P from the last '.' of its final element (what follows
\* the last '/') to the end, empty when the final element has no '.'.
FromLastDotOfFinalElement(P) ==
    LET first == 1 + SetMax({0} \cup {i \in 1 .. Len(P) : P[i] = "/"})
        dots == {i \in first .. Len(P) : P[i] = "."}
    IN  IF dots = {} THEN <<>> ELSE SubSeq(P, SetMax(dots), Len(P))

\* C9, as stated: the output path is P without E, "_greyscale", E, with E
\* the substring of P from its last '.', and it differs from P.
C9_OutputPathFromLastDot ==
    outputFilename # <<>> =>
        /\ outputFilename = Derived(inputFilename, FromLastDot(inputFilename))
        /\ outputFilename # inputFilename

\* C9, amended: the output path is P without E, "_greyscale", E, with E the
\* substring of P from the last '.' of its final path element (empty when
\* that element has no '.'), and it differs from P.
C9_OutputPathFromExtension ==
    outputFilename # <<>> =>
        /\ outputFilename = Derived(inputFilename, FromLastDotOfFinalElement(inputFilename))
        /\ outputFilename # inputFilename

\* C9's case: a path whose last '.' is in a directory component.
C9_Witness ==
    /\ inputFilename = <<".", "/", "a">>
    /\ outputFilename = <<".", "/", "a">> \o GreyscaleSuffix
    /\ outputFilename \in files

\* C10: every destination pixel (i, j) is written exactly once, from the
\* source pixel at column i and row j of the source's bounds, whatever the
\* corner of those bounds, and never from a coordinate outside them.
C10_PositionalCorrespondence ==
    /\ \A k \in 1 .. Len(setLog) :
          /\ atLog[k] = <<originalImage.min[1] + setLog[k][1],
                          originalImage.min[2] + setLog[k][2]>>
          /\ InBounds(originalImage, atLog[k][1], atLog[k][2])
    /\ pc = "returned" =>
          \A p \in Positions(originalImage.w, originalImage.h) :
              Cardinality({k \in 1 .. Len(setLog) : setLog[k] = p}) = 1

====
